---- MODULE Spec2Model ----
(***************************************************************************)
(* A model of the git session manager (git_session_manager_hw.py): the     *)
(* manager's cached status fields, the git repository it drives (branches, *)
(* commits, tags, index, working tree, submodules), and one action per     *)
(* operation the manager exposes.  Strings are sequences of characters; a  *)
(* strftime timestamp is one element of such a sequence.                   *)
(***************************************************************************)
EXTENDS Integers, Sequences, FiniteSets, TLC

VARIABLES
    mgr,     \* the manager's settings: its cached status and its configuration
    repo,    \* the superproject repository
    sub,     \* the submodule repositories and the persisted parent record
    env,     \* what the run is given: the names the user types, the branches
             \* the repository already held
    faults,  \* the number of git commands that have failed so far
    last     \* the last step: the operation, its inputs and how it ended

vars == <<mgr, repo, sub, env, faults, last>>

(***************************************************************************)
(* Bounds of the model.                                                    *)
(***************************************************************************)
\* branches (of the superproject and of the submodules) and commits that may
\* be created in one run, counted together (an operation that would create
\* more is disabled)
MaxCreated == 4
\* git commands that may fail in one run of the program
MaxFaults == 1
\* characters in a session name the user types
MaxNameLen == 2
\* entries in the transcript handed to the commit hook
MaxEntries == 1

\* commits the commit hook makes in a run
MaxHookCommits == 1

(***************************************************************************)
(* Strings.                                                                *)
(***************************************************************************)
Str0 == << >>

SESSION_PREFIX == <<"s", "e", "s", "s", "i", "o", "n">>

Hyphen == <<"-">>

\* str.startswith
StartsWith(s, p) ==
    /\ Len(s) >= Len(p)
    /\ SubSeq(s, 1, Len(p)) = p

\* a test for the prefix without the hyphen
IsSessionBranchByPrefix(b) == StartsWith(b, SESSION_PREFIX)

\* the test of refresh_git_status: current_branch.startswith(f"{SESSION_PREFIX}-")
IsSessionBranch(b) == StartsWith(b, SESSION_PREFIX \o Hyphen)

\* the branch a fresh repository is on
Main == <<"m", "a", "i", "n">>

\* the branch a submodule is on before any session
SubDev == <<"d", "e", "v">>

\* the values datetime.now().strftime("%y%m%d-%H%M%S") takes in the model
Timestamps == {"250101-093000"}

\* a session name the user types into the session_name setting
TrialA == <<"T", " ", "A">>

\* the tracked files of the superproject the model edits
Files == {"data.txt"}

\* the paths the .gitmodules file declares, in the order git config lists them
SubOrder == <<"subA", "subB">>

Submodules == {SubOrder[i] : i \in 1..Len(SubOrder)}

(***************************************************************************)
(* The repository as git shows it to the manager.                          *)
(***************************************************************************)
\* the commit HEAD points to: git rev-parse HEAD
HeadCommit(r) == r.heads[r.branch]

\* whether git status --porcelain prints anything; with --ignore-submodules
\* neither a submodule's dirty content nor its moved gitlink is listed
StatusPorcelain(w, ignoreSubmodules) ==
    IF ignoreSubmodules
    THEN (w.repo.index \cup w.repo.worktree) \cap Files # {}
    ELSE \/ (w.repo.index \cup w.repo.worktree) # {}
         \/ \E p \in Submodules : w.sub.mods[p].dirty

\* the fault points of one operation: the git commands of the handler that
\* exit non-zero (or cannot be run) in this call
Faulty(ft, site) == site \in ft

(***************************************************************************)
(* refresh_git_status                                                      *)
(***************************************************************************)
\* lines 186-197: the session fields follow the cached current_branch
UpdateSessionStatus(m) ==
    [m EXCEPT !.session_active = IsSessionBranch(m.current_branch),
              !.session_branch = IF IsSessionBranch(m.current_branch)
                                 THEN m.current_branch ELSE Str0]

\* a refresh that leaves out the status query and its assignment
RefreshMgrWithoutStatus(w, ctx, ft) ==
    LET m0 == w.mgr
        m1 == [m0 EXCEPT !.current_branch = w.repo.branch]
        m2 == [m1 EXCEPT !.current_commit_hash = HeadCommit(w.repo)]
    IN  IF Faulty(ft, <<ctx, "rev-parse --abbrev-ref">>) THEN m0
        ELSE IF Faulty(ft, <<ctx, "rev-parse HEAD">>) THEN m1
        ELSE UpdateSessionStatus(m2)

\* a refresh that leaves out the commit query and its assignment
RefreshMgrWithoutCommit(w, ctx, ft) ==
    LET m0 == w.mgr
        m1 == [m0 EXCEPT !.current_branch = w.repo.branch]
        m3 == [m1 EXCEPT !.has_uncommitted_changes =
                             StatusPorcelain(w, ~m0.manage_submodules)]
    IN  IF Faulty(ft, <<ctx, "rev-parse --abbrev-ref">>) THEN m0
        ELSE IF Faulty(ft, <<ctx, "status">>) THEN m1
        ELSE UpdateSessionStatus(m3)

\* the three queries in order; the first that fails raises, the except clause
\* logs, and what was assigned before it stays assigned
RefreshMgr(w, ctx, ft) ==
    LET m0 == w.mgr
        m1 == [m0 EXCEPT !.current_branch = w.repo.branch]
        m2 == [m1 EXCEPT !.current_commit_hash = HeadCommit(w.repo)]
        m3 == [m2 EXCEPT !.has_uncommitted_changes =
                             StatusPorcelain(w, ~m0.manage_submodules)]
    IN  IF Faulty(ft, <<ctx, "rev-parse --abbrev-ref">>) THEN m0
        ELSE IF Faulty(ft, <<ctx, "rev-parse HEAD">>) THEN m1
        ELSE IF Faulty(ft, <<ctx, "status">>) THEN m2
        ELSE UpdateSessionStatus(m3)

refresh_git_status(w, ctx, ft) == [w EXCEPT !.mgr = RefreshMgr(w, ctx, ft)]

RefreshSites(ctx) ==
    {<<ctx, "rev-parse --abbrev-ref">>, <<ctx, "rev-parse HEAD">>, <<ctx, "status">>}

(***************************************************************************)
(* generate_session_branch_name                                            *)
(***************************************************************************)
\* the characters of the model for which str.isalnum() is true; U+00E9 is
\* the letter e with an acute accent, one character
AlnumChars == {"A", "T", "a", "d", "e", "i", "m", "n", "o", "s", "v",
               "0", "1", "2", "3", "4", "5", "6", "7", "8", "9", "U+00E9"}

\* c.isalnum() or c in "-."; a timestamp holds digits and one hyphen only
KeepChar(c) == c \in AlnumChars \/ c \in {"-", "."} \/ c \in Timestamps

\* .replace(" ", "-").replace("_", "-")
FoldChar(c) == IF c = " " \/ c = "_" THEN "-" ELSE c

CleanName(n) == SelectSeq([i \in 1..Len(n) |-> FoldChar(n[i])], KeepChar)

\* the name and the manager with the cleaned name written back (line 217)
generate_session_branch_name(m, ts) ==
    IF m.session_name # Str0
    THEN [mgr  |-> [m EXCEPT !.session_name = CleanName(m.session_name)],
          name |-> SESSION_PREFIX \o Hyphen \o <<ts>> \o Hyphen
                       \o CleanName(m.session_name)]
    ELSE [mgr  |-> m,
          name |-> SESSION_PREFIX \o Hyphen \o <<ts>>]

\* str(counter)
DigitChar == <<"1", "2", "3", "4", "5", "6", "7", "8", "9">>

RECURSIVE Decimal(_)
Decimal(n) ==
    IF n < 10
    THEN IF n = 0 THEN <<"0">> ELSE <<DigitChar[n]>>
    ELSE Decimal(n \div 10) \o Decimal(n % 10)

\* s.replace(pat, "", 1): the first occurrence of pat removed
ReplaceFirst(s, pat) ==
    LET hits == {i \in 1..(Len(s) - Len(pat) + 1) :
                    SubSeq(s, i, i + Len(pat) - 1) = pat}
    IN  IF hits = {} THEN s
        ELSE LET i == CHOOSE j \in hits : \A k \in hits : j <= k
             IN  SubSeq(s, 1, i - 1) \o SubSeq(s, i + Len(pat), Len(s))

(***************************************************************************)
(* git commands on the superproject                                        *)
(***************************************************************************)
\* git show-ref --verify --quiet refs/heads/<name> exits 0
BranchExists(r, name) == name \in DOMAIN r.heads

\* git checkout -B <name>, which is never refused: an existing branch is reset
GitCheckoutResetBranchOk(r, name) == TRUE

\* git checkout -b <name>: refused when the branch exists; otherwise the new
\* branch starts at HEAD and the index and working tree are carried along
GitCheckoutNewBranchOk(r, name) == ~BranchExists(r, name)

\* git branch <name> done and git checkout <name> refused: the branch is left
GitBranchCreatedOnly(r, name) ==
    [r EXCEPT !.heads = (name :> HeadCommit(r)) @@ r.heads]

\* what git checkout -b leaves when it exits non-zero: nothing
GitCheckoutNewBranchRefused(r, name) == r

GitCheckoutNewBranch(r, name) ==
    [r EXCEPT !.heads = (name :> HeadCommit(r)) @@ r.heads,
              !.branch = name]

\* git checkout <name>: refused when there is no such branch
GitCheckoutOk(r, name) == BranchExists(r, name)

\* a checkout that leaves HEAD where it is
GitCheckoutStaying(r, name) == r

\* a checkout that deletes the branch it leaves (git branch -D after it)
GitCheckoutDeleting(r, name) ==
    [r EXCEPT !.branch = name,
              !.heads = [b \in DOMAIN r.heads \ ({r.branch} \ {name}) |-> r.heads[b]]]

\* git checkout <name> (line 504): HEAD moves to the branch
GitCheckout(r, name) == [r EXCEPT !.branch = name]

\* git add -A: every listed change of the working tree is staged
GitAddAll(r) == [r EXCEPT !.index = r.index \cup r.worktree, !.worktree = {}]

\* the exit codes of git diff --cached --quiet taken the other way round
GitDiffCachedQuietInverted(r) == IF r.index # {} THEN 0 ELSE 1

\* git diff --cached --quiet exits 1 when something is staged
GitDiffCachedQuiet(r) == IF r.index # {} THEN 1 ELSE 0

\* git commit: a new commit holding the index on the current branch
GitCommit(r, kind) ==
    [r EXCEPT !.commits = Append(r.commits,
                                 [kind |-> kind, files |-> r.index, on |-> r.branch]),
              !.heads = [r.heads EXCEPT ![r.branch] = Len(r.commits) + 1],
              !.index = {}]

\* git commit without --allow-empty and nothing staged: exit code 1, the
\* "nothing to commit" text on stdout, stderr empty
GitCommitRefuses(r) == r.index = {}

\* git commit without --allow-empty, given nothing staged
GitCommitEmptyRefused(r) == r.index = {}

\* git commit --allow-empty is not refused for want of staged changes
GitCommitAllowEmptyRefuses(r) == FALSE

\* the stderr of a failed git commit
CommitStderr(r, faulty) == IF faulty THEN "fatal" ELSE ""

\* "nothing to commit" in e.stderr
NothingToCommitIn(stderr) == stderr = "nothing to commit"

TagName(tagType, name) == tagType \o Hyphen \o name

StartTag == <<"s", "t", "a", "r", "t">>

\* git tag -a <tag>: refused when the tag exists
GitTagOk(r, tag) == tag \notin DOMAIN r.tags

GitTag(r, tag) == [r EXCEPT !.tags = (tag :> HeadCommit(r)) @@ r.tags]

(***************************************************************************)
(* What a handler hands back: the world it leaves, whether it raised, and  *)
(* the step it ended at.                                                   *)
(***************************************************************************)
Res(w, raised, stage) == [w |-> w, raised |-> raised, stage |-> stage]

\* submodule operations that let the failure of one of their commands out
SubmoduleFailureRaisedOn(ft) ==
    \E x \in ft :
        \/ Len(x) = 3
        \/ x[2] \in {"config --get-regexp path", "write parents file",
                      "read parents file", "submodule foreach add"}

\* the outer except clauses of start_session_in_submodules (lines 336-337),
\* commit_submodule_changes (483-484), return_submodules_to_parent_branch
\* (576-577) and get_submodules (159-161) log the failure: nothing is raised
\* to the caller
SubmoduleFailureRaised(ft) == FALSE

(***************************************************************************)
(* start_session_in_submodules                                             *)
(***************************************************************************)
\* get_submodules: the declared paths, or [] when the query prints nothing
get_submodules(ctx, ft) ==
    IF Faulty(ft, <<ctx, "config --get-regexp path">>) THEN << >> ELSE SubOrder

\* a loop that gives up at the first submodule whose command fails
RECURSIVE StartSubmodulesFromStopping(_, _, _, _, _)
StartSubmodulesFromStopping(acc, paths, i, name, ft) ==
    IF i > Len(paths) THEN acc
    ELSE LET p == paths[i]
             m == acc.mods[p]
             rec1 == (p :> m.branch) @@ acc.rec
             created == /\ ~Faulty(ft, <<"start", "sub checkout -b", p>>)
                        /\ name \notin m.branches
         IN  IF Faulty(ft, <<"start", "sub rev-parse", p>>) THEN acc
             ELSE IF ~created THEN [mods |-> acc.mods, rec |-> rec1]
             ELSE StartSubmodulesFromStopping(
                      [mods |-> [acc.mods EXCEPT ![p] =
                                    [m EXCEPT !.branch = name,
                                              !.branches = m.branches \cup {name}]],
                       rec |-> rec1],
                      paths, i + 1, name, ft)

\* one pass of the loop of lines 296-327 over submodules[i..]: acc.mods are
\* the submodules, acc.rec the submodule_parent_branches collected so far
RECURSIVE StartSubmodulesFrom(_, _, _, _, _)
StartSubmodulesFrom(acc, paths, i, name, ft) ==
    IF i > Len(paths) THEN acc
    ELSE LET p == paths[i]
             m == acc.mods[p]
             rec1 == (p :> m.branch) @@ acc.rec
             created == /\ ~Faulty(ft, <<"start", "sub checkout -b", p>>)
                        /\ name \notin m.branches
             next ==
                 IF Faulty(ft, <<"start", "sub rev-parse", p>>) THEN acc
                 ELSE IF created
                 THEN [mods |-> [acc.mods EXCEPT ![p] =
                                    [m EXCEPT !.branch = name,
                                              !.branches = m.branches \cup {name}]],
                       rec |-> rec1]
                 ELSE [mods |-> acc.mods, rec |-> rec1]
         IN  StartSubmodulesFrom(next, paths, i + 1, name, ft)

\* never raises: the outer except clause logs
start_session_in_submodules(w, name, ft) ==
    LET paths == get_submodules("start", ft)
        out == StartSubmodulesFrom([mods |-> w.sub.mods, rec |-> << >>],
                                   paths, 1, name, ft)
        \* lines 330-334: the file is rewritten only when something was recorded
        parents == IF DOMAIN out.rec = {} \/ Faulty(ft, <<"start", "write parents file">>)
                   THEN w.sub.parents ELSE out.rec
    IN  IF paths = << >> THEN w
        ELSE [w EXCEPT !.sub = [mods |-> out.mods, parents |-> parents]]

(***************************************************************************)
(* commit_initial_session_state                                            *)
(***************************************************************************)
\* an except clause that logs every failed command and goes on
InitialCommitFailureLogged(w, stderr) == Res(w, FALSE, "nothing to commit")

\* the except clause of lines 393-401: swallowed only when stderr says so
InitialCommitFailure(w, stderr) ==
    IF NothingToCommitIn(stderr) THEN Res(w, FALSE, "nothing to commit")
    ELSE Res(w, TRUE, "initial commit")

commit_initial_session_state(w, ft) ==
    LET \* check=False: a failed status prints nothing
        dirty == /\ ~Faulty(ft, <<"start", "status">>)
                 /\ StatusPorcelain(w, FALSE)
        staged == GitAddAll(w.repo)
        w1 == [w EXCEPT !.repo = staged]
        \* check=False: a failed diff exits non-zero as well
        rc == IF Faulty(ft, <<"start", "diff --cached">>) THEN 128
              ELSE GitDiffCachedQuiet(staged)
    IN  IF ~dirty
        THEN IF Faulty(ft, <<"start", "commit">>) \/ GitCommitAllowEmptyRefuses(w.repo)
             THEN InitialCommitFailure(w,
                      CommitStderr(w.repo, Faulty(ft, <<"start", "commit">>)))
             ELSE Res([w EXCEPT !.repo = GitCommit(w.repo, "Start")],
                      FALSE, "empty commit")
        ELSE IF Faulty(ft, <<"start", "add">>)
             THEN InitialCommitFailure(w, "fatal")
        ELSE IF rc = 0
             THEN Res(w1, FALSE, "nothing staged")
        ELSE IF Faulty(ft, <<"start", "commit">>) \/ GitCommitRefuses(staged)
             THEN InitialCommitFailure(w1,
                      CommitStderr(staged, Faulty(ft, <<"start", "commit">>)))
        ELSE Res([w EXCEPT !.repo = GitCommit(staged, "Initial state for")],
                 FALSE, "initial commit")

(***************************************************************************)
(* create_session_tag                                                      *)
(***************************************************************************)
\* a create_session_tag without its except clause: a failed git tag raises
create_session_tag_unguarded(w, name, ft) ==
    IF Faulty(ft, <<"start", "tag">>) \/ ~GitTagOk(w.repo, TagName(StartTag, name))
    THEN Res(w, TRUE, "tag")
    ELSE Res([w EXCEPT !.repo = GitTag(w.repo, TagName(StartTag, name))],
             FALSE, "tagged")

\* a failed git tag is caught by the except clause of lines 424-426 and logged
create_session_tag(w, name, ft) ==
    IF Faulty(ft, <<"start", "tag">>) \/ ~GitTagOk(w.repo, TagName(StartTag, name))
    THEN Res(w, FALSE, "tag failed")
    ELSE Res([w EXCEPT !.repo = GitTag(w.repo, TagName(StartTag, name))],
             FALSE, "tagged")

(***************************************************************************)
(* start_experimental_session                                              *)
(***************************************************************************)
\* a loop that appends the counter to the candidate it has just rejected
RECURSIVE ProbeFromAppending(_, _, _, _)
ProbeFromAppending(r, original, cand, n) ==
    IF BranchExists(r, cand)
    THEN ProbeFromAppending(r, original, cand \o Hyphen \o Decimal(n), n + 1)
    ELSE cand

\* the loop of lines 242-253 from candidate cand with the counter at n
RECURSIVE ProbeFrom(_, _, _, _)
ProbeFrom(r, original, cand, n) ==
    IF BranchExists(r, cand)
    THEN ProbeFrom(r, original, original \o Hyphen \o Decimal(n), n + 1)
    ELSE cand

\* a loop that asks twice about every candidate
RECURSIVE ProbeChecksFromTwice(_, _, _, _)
ProbeChecksFromTwice(r, original, cand, n) ==
    IF BranchExists(r, cand)
    THEN 2 + ProbeChecksFromTwice(r, original, original \o Hyphen \o Decimal(n), n + 1)
    ELSE 2

\* the git show-ref commands the loop of lines 242-253 runs from candidate
\* cand with the counter at n: one in every pass, the last one the pass that
\* breaks out
RECURSIVE ProbeChecksFrom(_, _, _, _)
ProbeChecksFrom(r, original, cand, n) ==
    IF BranchExists(r, cand)
    THEN 1 + ProbeChecksFrom(r, original, original \o Hyphen \o Decimal(n), n + 1)
    ELSE 1

\* the git show-ref commands of a start
ProbeChecks(r, original, ft) ==
    IF Faulty(ft, <<"start", "show-ref">>) THEN 1
    ELSE ProbeChecksFrom(r, original, original, 1)

\* check=False: a show-ref that fails for another reason exits non-zero too,
\* and the loop takes the candidate for free
ProbeBranchName(r, original, ft) ==
    IF Faulty(ft, <<"start", "show-ref">>) THEN original
    ELSE ProbeFrom(r, original, original, 1)

\* lines 256-258
RenameSession(m, name, original) ==
    IF name # original
    THEN [m EXCEPT !.session_name = ReplaceFirst(name, SESSION_PREFIX \o Hyphen)]
    ELSE m

\* a start that records the parent only once the branch has been made
RecordParentKept(m) == m

\* lines 232-234
RecordParent(m) == [m EXCEPT !.parent_branch = m.current_branch]

\* the branch name start() settles on, from the world it is called in
ChosenName(w, ts, ft) ==
    ProbeBranchName(w.repo, generate_session_branch_name(w.mgr, ts).name, ft)

\* a start that refreshes the cache before it raises
StartRaisesRefreshed(res, ft) ==
    Res(refresh_git_status(res.w, "start", ft), TRUE, res.stage)

\* the except clause of lines 281-283: the failure is logged and raised
\* again, the refresh of line 277 has not been reached
StartRaises(res, ft) == res

\* race: the commit another process points a branch of the chosen name at,
\* after the probe and before git checkout -b (0: no such process)
start_experimental_session(w, ts, ft, race) ==
    LET gen == generate_session_branch_name(RecordParent(w.mgr), ts)
        name == ProbeBranchName(w.repo, gen.name, ft)
        m2 == RenameSession(gen.mgr, name, gen.name)
        r1 == IF race = 0 THEN w.repo
              ELSE [w.repo EXCEPT !.heads = (name :> race) @@ w.repo.heads]
        w1 == [w EXCEPT !.mgr = m2, !.repo = r1]
    IN  IF Faulty(ft, <<"start", "checkout -b">>) \/ ~GitCheckoutNewBranchOk(r1, name)
        THEN Res([w1 EXCEPT !.repo = GitCheckoutNewBranchRefused(r1, name)],
                 TRUE, "checkout")
        ELSE LET w2 == [w1 EXCEPT !.repo = GitCheckoutNewBranch(r1, name)]
                 w3 == IF m2.manage_submodules
                       THEN start_session_in_submodules(w2, name, ft) ELSE w2
                 ci == commit_initial_session_state(w3, ft)
                 tg == create_session_tag(ci.w, name, ft)
             IN  IF m2.manage_submodules /\ SubmoduleFailureRaised(ft)
                 THEN StartRaises(Res(w3, TRUE, "submodules"), ft)
                 ELSE IF ci.raised THEN StartRaises(ci, ft)
                 ELSE IF tg.raised THEN StartRaises(tg, ft)
                 ELSE Res(refresh_git_status(tg.w, "start", ft), FALSE, ci.stage)

StartSites ==
    {<<"start", "show-ref">>, <<"start", "checkout -b">>, <<"start", "status">>,
     <<"start", "add">>, <<"start", "diff --cached">>, <<"start", "commit">>,
     <<"start", "tag">>, <<"start", "config --get-regexp path">>,
     <<"start", "write parents file">>}
    \cup {<<"start", "sub rev-parse", p>> : p \in Submodules}
    \cup {<<"start", "sub checkout -b", p>> : p \in Submodules}
    \cup RefreshSites("start")

(***************************************************************************)
(* commit_submodule_changes                                                *)
(***************************************************************************)
\* git submodule foreach hands its stdin to the commands it runs: the first
\* git commit -F - reads the message to the end, the later ones read an empty
\* message and abort
MessageLeft(i) == i = 1

\* git submodule foreach git commit: the submodules in order; foreach stops
\* at the first whose command exits non-zero (nothing to commit, an empty
\* message, or a fault).
\* A submodule that commits moves its gitlink in the superproject's tree.
RECURSIVE ForeachCommitFrom(_, _, _)
ForeachCommitFrom(w, i, ft) ==
    IF i > Len(SubOrder) THEN w
    ELSE LET p == SubOrder[i]
         IN  IF \/ Faulty(ft, <<"commit", "sub commit", p>>)
                \/ ~w.sub.mods[p].dirty
                \/ ~MessageLeft(i)
             THEN w
             ELSE ForeachCommitFrom(
                      [w EXCEPT !.sub.mods[p].dirty = FALSE,
                                !.repo.worktree = w.repo.worktree \cup {p}],
                      i + 1, ft)

\* never raises: a failed foreach add is logged, and the commit's exit code is
\* not checked
commit_submodule_changes(w, ft) ==
    IF Faulty(ft, <<"commit", "submodule foreach add">>) THEN w
    ELSE ForeachCommitFrom(w, 1, ft)

(***************************************************************************)
(* commit_session_changes                                                  *)
(***************************************************************************)
\* a guard that lets every call through
NoActiveSessionUnchecked(m) == FALSE

\* if not self.session_active.val: raise ValueError (lines 582-583, 431-432)
NoActiveSession(m) == ~m.session_active

\* the except clause of lines 621-625
SessionCommitFailure(w, stderr) ==
    IF NothingToCommitIn(stderr) THEN Res(w, FALSE, "nothing to commit")
    ELSE Res(w, TRUE, "commit")

CommitKind(final) == IF final THEN "Final" ELSE "Progress"

commit_session_changes(w, final, ft) ==
    IF NoActiveSession(w.mgr) THEN Res(w, TRUE, "no active session")
    ELSE IF ~w.mgr.has_uncommitted_changes THEN Res(w, FALSE, "no changes")
    ELSE LET w1 == IF w.mgr.manage_submodules
                   THEN commit_submodule_changes(w, ft) ELSE w
             staged == GitAddAll(w1.repo)
             w2 == [w1 EXCEPT !.repo = staged]
         IN  IF w.mgr.manage_submodules /\ SubmoduleFailureRaised(ft)
             THEN Res(w1, TRUE, "submodules")
             ELSE IF Faulty(ft, <<"commit", "add">>)
             THEN SessionCommitFailure(w1, "fatal")
             ELSE IF Faulty(ft, <<"commit", "commit">>) \/ GitCommitRefuses(staged)
             THEN SessionCommitFailure(w2,
                      CommitStderr(staged, Faulty(ft, <<"commit", "commit">>)))
             ELSE Res(refresh_git_status(
                          [w1 EXCEPT !.repo = GitCommit(staged, CommitKind(final))],
                          "commit", ft),
                      FALSE, "committed")

CommitSites ==
    {<<"commit", "add">>, <<"commit", "commit">>,
     <<"commit", "submodule foreach add">>}
    \cup {<<"commit", "sub commit", p>> : p \in Submodules}
    \cup RefreshSites("commit")

(***************************************************************************)
(* end_experimental_session                                                *)
(***************************************************************************)
\* an end that records the session as ended (the session_ended flag of the
\* commented-out lines 443-446)
StatusAfterEndMarkedEnded(w, ft) ==
    [refresh_git_status(w, "end", ft) EXCEPT !.mgr.session_active = FALSE]

\* self.refresh_git_status() (line 447): the session stays as the branch
\* name tells
StatusAfterEnd(w, ft) == refresh_git_status(w, "end", ft)

end_experimental_session(w, ft) ==
    IF NoActiveSession(w.mgr) THEN Res(w, TRUE, "no active session")
    ELSE LET c == IF w.mgr.has_uncommitted_changes
                  THEN commit_session_changes(w, TRUE, ft)
                  ELSE Res(w, FALSE, "clean")
         IN  IF c.raised THEN c
             ELSE Res(StatusAfterEnd(c.w, ft), FALSE, c.stage)

EndSites == CommitSites \cup RefreshSites("end")

(***************************************************************************)
(* return_submodules_to_parent_branch                                      *)
(***************************************************************************)
\* a lookup that finds no line for any path
RecordedParentMissing(parents, p) == Str0

\* submodule_parent_branches.get(path): None when the file has no such line
RecordedParent(parents, p) == IF p \in DOMAIN parents THEN parents[p] ELSE Str0

\* a loop that checks a submodule out whether or not it holds changes
RECURSIVE RestoreSubmodulesFromForced(_, _, _, _, _)
RestoreSubmodulesFromForced(mods, parents, paths, i, ft) ==
    IF i > Len(paths) THEN mods
    ELSE LET p == paths[i]
             m == mods[p]
             parent == RecordedParent(parents, p)
             skip == \/ Faulty(ft, <<"return", "sub status", p>>)
                     \/ parent = Str0
                     \/ Faulty(ft, <<"return", "sub checkout", p>>)
                     \/ parent \notin m.branches
             next == IF skip THEN mods
                     ELSE [mods EXCEPT ![p] = [m EXCEPT !.branch = parent]]
         IN  RestoreSubmodulesFromForced(next, parents, paths, i + 1, ft)

\* the loop of lines 535-574 over submodules[i..]
RECURSIVE RestoreSubmodulesFrom(_, _, _, _, _)
RestoreSubmodulesFrom(mods, parents, paths, i, ft) ==
    IF i > Len(paths) THEN mods
    ELSE LET p == paths[i]
             m == mods[p]
             parent == RecordedParent(parents, p)
             skip == \/ Faulty(ft, <<"return", "sub status", p>>)
                     \/ m.dirty
                     \/ parent = Str0
                     \/ Faulty(ft, <<"return", "sub checkout", p>>)
                     \/ parent \notin m.branches
             next == IF skip THEN mods
                     ELSE [mods EXCEPT ![p] = [m EXCEPT !.branch = parent]]
         IN  RestoreSubmodulesFrom(next, parents, paths, i + 1, ft)

\* never raises: the outer except clause logs
return_submodules_to_parent_branch(w, ft) ==
    LET paths == get_submodules("return", ft)
    IN  IF paths = << >> \/ Faulty(ft, <<"return", "read parents file">>) THEN w
        ELSE [w EXCEPT !.sub.mods =
                  RestoreSubmodulesFrom(w.sub.mods, w.sub.parents, paths, 1, ft)]

(***************************************************************************)
(* return_to_parent_branch                                                 *)
(***************************************************************************)
\* a return that forgets the parent it went back to
StatusAfterReturnForgetting(w, ft) ==
    [refresh_git_status(w, "return", ft) EXCEPT !.mgr.parent_branch = Str0]

\* a return that leaves out its closing refresh
StatusAfterReturnSkipped(w, ft) == w

\* self.refresh_git_status() (line 507)
StatusAfterReturn(w, ft) == refresh_git_status(w, "return", ft)

\* a guard that lets every call through
NoParentRecordedUnchecked(m) == FALSE

\* if not self.parent_branch.val: raise ValueError (lines 489-490)
NoParentRecorded(m) == m.parent_branch = Str0

\* a return whose rejected checkout would take the submodules back with it
ReturnRejectedUndoing(restored, ended) == Res(ended, TRUE, "checkout")

\* the checkout of line 504 is rejected: the except clause logs and raises
\* again (lines 511-513); what the steps before it did stays done
ReturnRejected(restored, ended) == Res(restored, TRUE, "checkout")

return_to_parent_branch(w, ft) ==
    IF NoParentRecorded(w.mgr) THEN Res(w, TRUE, "no parent branch")
    ELSE LET parent == w.mgr.parent_branch
             e == IF w.mgr.session_active
                  THEN end_experimental_session(w, ft)
                  ELSE Res(w, FALSE, "not active")
             w1 == IF e.w.mgr.manage_submodules
                   THEN return_submodules_to_parent_branch(e.w, ft) ELSE e.w
         IN  IF e.raised THEN e
             ELSE IF e.w.mgr.manage_submodules /\ SubmoduleFailureRaised(ft)
             THEN Res(w1, TRUE, "submodules")
             ELSE IF Faulty(ft, <<"return", "checkout">>) \/ ~GitCheckoutOk(w1.repo, parent)
             THEN ReturnRejected(w1, e.w)
             ELSE Res(StatusAfterReturn(
                          [w1 EXCEPT !.repo = GitCheckout(w1.repo, parent)], ft),
                      FALSE, "returned")

ReturnSites ==
    EndSites
    \cup {<<"return", "checkout">>, <<"return", "config --get-regexp path">>,
          <<"return", "read parents file">>}
    \cup {<<"return", "sub status", p>> : p \in Submodules}
    \cup {<<"return", "sub checkout", p>> : p \in Submodules}
    \cup RefreshSites("return")

(***************************************************************************)
(* The state machine.                                                      *)
(***************************************************************************)
World == [mgr |-> mgr, repo |-> repo, sub |-> sub]

\* the sets of at most k fault points among sites
RECURSIVE FaultSetsUpTo(_, _)
FaultSetsUpTo(sites, k) ==
    IF k = 0 THEN {{}}
    ELSE LET prev == FaultSetsUpTo(sites, k - 1)
         IN  prev \cup {F \cup {x} : F \in prev, x \in sites}

\* faults counts the commands that have failed so far; spent: the commands
\* that fail in this call for another reason than a fault point
FaultSetsBut(sites, spent) ==
    IF faults + spent > MaxFaults THEN {}
    ELSE FaultSetsUpTo(sites, MaxFaults - faults - spent)

FaultSets(sites) == FaultSetsBut(sites, 0)

\* a fault set is taken only if each of its faults changes what the handler
\* does: a command that is never run cannot fail
Effective(Handler(_), ft) == \A x \in ft : Handler(ft) # Handler(ft \ {x})

\* the fault points a handler can reach with the submodule toggle as it is
IsSubmoduleSite(site) ==
    \/ Len(site) = 3
    \/ site[2] \in {"config --get-regexp path", "write parents file",
                     "read parents file", "submodule foreach add"}

SitesFor(sites) ==
    IF mgr.manage_submodules THEN sites
    ELSE {x \in sites : ~IsSubmoduleSite(x)}

\* the branches created in the submodules paths[i..]
RECURSIVE SubmoduleBranchesFrom(_, _)
SubmoduleBranchesFrom(w, i) ==
    IF i > Len(SubOrder) THEN 0
    ELSE Cardinality(w.sub.mods[SubOrder[i]].branches \ {SubDev})
             + SubmoduleBranchesFrom(w, i + 1)

WithinBounds(w) ==
    Cardinality(DOMAIN w.repo.heads \ env.given) + (Len(w.repo.commits) - 1)
        + SubmoduleBranchesFrom(w, 1) <= MaxCreated

\* what the last step was: the operation, its inputs (typed: the session name
\* in the setting, ft: the commands that failed, race: the other process),
\* the branch the repository was on, the name generated and the name chosen,
\* and how the handler ended
Last(op, res, ft) ==
    [op |-> op, raised |-> res.raised, stage |-> res.stage, ft |-> ft,
     from |-> repo.branch, typed |-> Str0, base |-> Str0, name |-> Str0,
     race |-> 0]

BecomesAfter(w, failed) ==
    /\ mgr' = w.mgr
    /\ repo' = w.repo
    /\ sub' = w.sub
    /\ faults' = faults + failed
    /\ UNCHANGED env

Becomes(w, ft) == BecomesAfter(w, Cardinality(ft))

\* setup(): the settings at their initial values; the repository holds one
\* commit, on main and on the branches of given, and two submodules on their
\* own branch
\* the settings at their initial values and a repository of one commit
FreshWorld(manage, given) ==
    [mgr |-> [session_name |-> Str0,
              manage_submodules |-> manage,
              current_branch |-> Str0,
              current_commit_hash |-> 0,
              session_active |-> FALSE,
              session_branch |-> Str0,
              parent_branch |-> Str0,
              has_uncommitted_changes |-> FALSE],
     repo |-> [branch |-> Main,
               heads |-> [b \in {Main} \cup given |-> 1],
               commits |-> <<[kind |-> "root", files |-> {}, on |-> Main]>>,
               tags |-> << >>,
               index |-> {},
               worktree |-> {}],
     sub |-> [mods |-> [p \in Submodules |->
                           [branch |-> SubDev, branches |-> {SubDev}, dirty |-> FALSE]],
              parents |-> << >>]]

InitWorld(manage, names, given) ==
    /\ env = [names |-> names, given |-> {Main} \cup given]
    /\ mgr = FreshWorld(manage, given).mgr
    /\ repo = FreshWorld(manage, given).repo
    /\ sub = FreshWorld(manage, given).sub
    /\ faults = 0
    /\ last = [op |-> "setup", raised |-> FALSE, stage |-> "setup", ft |-> {},
               from |-> Main, typed |-> Str0, base |-> Str0, name |-> Str0,
               race |-> 0]

\* the user leaves the session name empty
Init == InitWorld(FALSE, {Str0}, {})

\* "Refresh Status" (and connect())
RefreshStatus ==
    \E ft \in FaultSets(RefreshSites("refresh")) :
        /\ Becomes(refresh_git_status(World, "refresh", ft), ft)
        /\ last' = Last("refresh", Res(World, FALSE, "refreshed"), ft)

\* the session name the user leaves in the setting before pressing Start
Typed(w, n) == [w EXCEPT !.mgr.session_name = n]

\* a lost race is one more failed command: git checkout -b
RaceCost(race) == IF race = 0 THEN 0 ELSE 1

StartStep(race) ==
    \E n \in env.names \cup {mgr.session_name}, ts \in Timestamps,
       ft \in FaultSetsBut(SitesFor(StartSites), RaceCost(race)) :
        LET Handler(f) == start_experimental_session(Typed(World, n), ts, f, race)
            res == Handler(ft)
        IN  /\ Effective(Handler, ft)
            /\ WithinBounds(res.w)
            /\ BecomesAfter(res.w, Cardinality(ft) + RaceCost(race))
            /\ last' = [Last("start", res, ft) EXCEPT
                            !.typed = n,
                            !.base = generate_session_branch_name(
                                         Typed(World, n).mgr, ts).name,
                            !.name = ChosenName(Typed(World, n), ts, ft),
                            !.race = race]

\* "Start Session"
StartSession == StartStep(0)

\* "Start Session" while another process creates a branch of the chosen name,
\* at the root commit, between the probe and git checkout -b
StartSessionRaced == StartStep(1)

\* "Commit Changes"
CommitChanges ==
    \E ft \in FaultSets(SitesFor(CommitSites)) :
        LET Handler(f) == commit_session_changes(World, FALSE, f)
            res == Handler(ft)
        IN  /\ Effective(Handler, ft)
            /\ WithinBounds(res.w)
            /\ Becomes(res.w, ft)
            /\ last' = Last("commit", res, ft)

\* end_experimental_session called on its own
EndSession ==
    \E ft \in FaultSets(SitesFor(EndSites)) :
        LET Handler(f) == end_experimental_session(World, f)
            res == Handler(ft)
        IN  /\ Effective(Handler, ft)
            /\ WithinBounds(res.w)
            /\ Becomes(res.w, ft)
            /\ last' = Last("end", res, ft)

\* "Return to Parent Branch"
ReturnToParentBranch ==
    \E ft \in FaultSets(SitesFor(ReturnSites)) :
        LET Handler(f) == return_to_parent_branch(World, f)
            res == Handler(ft)
        IN  /\ Effective(Handler, ft)
            /\ WithinBounds(res.w)
            /\ Becomes(res.w, ft)
            /\ last' = Last("return", res, ft)

\* the experiment (or the user) changes a tracked file
EditFile ==
    \E f \in Files :
        /\ repo' = [repo EXCEPT !.worktree = repo.worktree \cup {f}]
        /\ UNCHANGED <<mgr, sub, env, faults>>
        /\ last' = Last("edit", Res(World, FALSE, "edited"), {})

\* something changes a file inside a submodule
EditSubmodule ==
    \E p \in Submodules :
        /\ sub' = [sub EXCEPT !.mods[p].dirty = TRUE]
        /\ UNCHANGED <<mgr, repo, env, faults>>
        /\ last' = Last("edit submodule", Res(World, FALSE, "edited"), {})

\* the operations of the host application on a repository whose submodules
\* are left alone
Next ==
    \/ RefreshStatus
    \/ StartSession
    \/ CommitChanges
    \/ ReturnToParentBranch
    \/ EditFile

Spec == Init /\ [][Next]_vars

\* the same with end_experimental_session as an operation of its own (the
\* "End Session" operation of setup(), line 105)
NextEnd ==
    \/ Next
    \/ EndSession

SpecEnd == Init /\ [][NextEnd]_vars

\* the name generated for an empty session name, and that name with suffix n
StampedName == generate_session_branch_name(
                   [session_name |-> Str0], CHOOSE ts \in Timestamps : TRUE).name

Suffixed(base, n) == base \o Hyphen \o Decimal(n)

\* the repository already holds session branches made in the same second:
\* the generated name and that name with suffix 2 (the one with suffix 1 has
\* been deleted since)
InitCrowded == InitWorld(FALSE, {Str0}, {StampedName, Suffixed(StampedName, 2)})

SpecCrowded == InitCrowded /\ [][Next]_vars

\* the manager with manage_submodules set, on a repository whose submodules
\* change as well; a session is started and returned from, and the final
\* commit of the return is the one commit of its changes
InitSub == InitWorld(TRUE, {Str0}, {})

NextSub ==
    \/ RefreshStatus
    \/ StartSession
    \/ ReturnToParentBranch
    \/ EditFile
    \/ EditSubmodule

SpecSub == InitSub /\ [][NextSub]_vars

\* the world after connect() and a first "Start Session" on a fresh
\* repository with manage_submodules set, no command having failed
StartedWorld ==
    start_experimental_session(
        refresh_git_status(FreshWorld(TRUE, {}), "refresh", {}),
        CHOOSE ts \in Timestamps : TRUE, {}, 0).w

\* a running session, in which files and submodules change and are committed
\* (its start commit and its submodule branches count as made in the run)
InitSession ==
    /\ env = [names |-> {Str0}, given |-> DOMAIN StartedWorld.repo.heads]
    /\ mgr = StartedWorld.mgr
    /\ repo = StartedWorld.repo
    /\ sub = StartedWorld.sub
    /\ faults = 0
    /\ last = [op |-> "start", raised |-> FALSE, stage |-> "empty commit",
               ft |-> {}, from |-> Main, typed |-> Str0, base |-> StampedName,
               name |-> StampedName, race |-> 0]

NextSession ==
    \/ RefreshStatus
    \/ CommitChanges
    \/ EditFile
    \/ EditSubmodule

SpecSession == InitSession /\ [][NextSession]_vars

\* branch names next to the session prefix: the prefix itself, the prefix
\* followed by a letter, and the prefix followed by the hyphen alone
NearPrefixNames ==
    {SESSION_PREFIX, SESSION_PREFIX \o <<"s">>, SESSION_PREFIX \o Hyphen}

\* the repository holds branches named like that, and a session branch
InitNamed == InitWorld(FALSE, {Str0}, NearPrefixNames \cup {StampedName})

\* the user checks another branch out in a terminal
ExternalCheckout ==
    \E b \in DOMAIN repo.heads \ {repo.branch} :
        /\ repo' = GitCheckout(repo, b)
        /\ UNCHANGED <<mgr, sub, env, faults>>
        /\ last' = Last("checkout", Res(World, FALSE, "checked out"), {})

NextNamed ==
    \/ RefreshStatus
    \/ EditFile
    \/ ExternalCheckout

SpecNamed == InitNamed /\ [][NextNamed]_vars

\* the characters a typed session name is made of: a letter, a digit, the
\* space, the underscore, the hyphen, the dot, a punctuation mark, the tab
\* (U+0009) and a letter outside ASCII
NameChars == {"a", "1", " ", "_", "-", ".", "!", "U+0009", "U+00E9"}

\* the names of at most n characters
RECURSIVE NamesUpTo(_)
NamesUpTo(n) ==
    IF n = 0 THEN {Str0}
    ELSE NamesUpTo(n - 1)
             \cup {Append(s, c) : s \in NamesUpTo(n - 1), c \in NameChars}

\* the user types any such name into the session_name setting
InitNaming == InitWorld(FALSE, NamesUpTo(MaxNameLen), {})

\* generate_session_branch_name() on the name in the setting
GenerateName ==
    \E n \in env.names \cup {mgr.session_name}, ts \in Timestamps :
        LET gen == generate_session_branch_name(Typed(World, n).mgr, ts)
        IN  /\ mgr' = gen.mgr
            /\ UNCHANGED <<repo, sub, env, faults>>
            /\ last' = [Last("generate", Res(World, FALSE, "generated"), {})
                            EXCEPT !.typed = n, !.base = gen.name]

NextNaming ==
    \/ RefreshStatus
    \/ GenerateName

SpecNaming == InitNaming /\ [][NextNaming]_vars

\* the world after connect() and two "Start Session" in a row on a fresh
\* repository, no command having failed: the second session is nested in the
\* first
NestedWorld ==
    LET ts == CHOOSE t \in Timestamps : TRUE
        first == start_experimental_session(
                     refresh_git_status(FreshWorld(FALSE, {}), "refresh", {}),
                     ts, {}, 0).w
    IN  start_experimental_session(first, ts, {}, 0).w

\* two nested sessions are running; the user works in the inner one and
\* returns
InitNested ==
    /\ env = [names |-> {Str0}, given |-> DOMAIN NestedWorld.repo.heads]
    /\ mgr = NestedWorld.mgr
    /\ repo = NestedWorld.repo
    /\ sub = NestedWorld.sub
    /\ faults = 0
    /\ last = [op |-> "start", raised |-> FALSE, stage |-> "empty commit",
               ft |-> {}, from |-> StampedName, typed |-> Str0,
               base |-> StampedName, name |-> Suffixed(StampedName, 1),
               race |-> 0]

NextNested ==
    \/ RefreshStatus
    \/ CommitChanges
    \/ ReturnToParentBranch
    \/ EditFile

SpecNested == InitNested /\ [][NextNested]_vars

(***************************************************************************)
(* The commit hook (llm_git_commit_hook.py), a program of its own that is  *)
(* run in the same repository after each interaction.                      *)
(***************************************************************************)
MAX_FILE_SIZE == 10 * 1024 * 1024

\* files the experiment leaves in the working tree; U+00E9 is the letter e
\* with an acute accent
HookFiles == {"exact.bin", "big.bin", "mesure-U+00E9.bin"}

\* the directory the hook itself writes into: the copy of the transcript
\* and the conversation converted to markdown
SessionLogDir == "llm-sessions/<branch>"

\* full_path.stat().st_size
FileSize(f) ==
    CASE f = "exact.bin" -> MAX_FILE_SIZE
      [] f = "big.bin" -> MAX_FILE_SIZE + 1
      [] f = "mesure-U+00E9.bin" -> MAX_FILE_SIZE + 1
      [] OTHER -> 1024

\* a path as git diff --name-only prints it: with core.quotePath (the
\* default) a path holding a byte above 0x7f is printed in double quotes
\* with the byte in octal
PathAsListed(f) ==
    IF f = "mesure-U+00E9.bin" THEN "\"mesure-\\303\\251.bin\"" ELSE f

\* git diff --staged --name-only (lines 355-361)
GitDiffStagedNames(r) == {PathAsListed(f) : f \in r.index}

\* full_path.exists() (line 370): the paths on disk are the unquoted ones
PathExists(r, path) == path \in r.index \cup r.worktree

\* lines 364-376: the listed paths that exist and are larger than the limit
LargeFiles(r) ==
    {path \in GitDiffStagedNames(r) :
        PathExists(r, path) /\ FileSize(path) > MAX_FILE_SIZE}

\* git reset HEAD <path> for each large file: unstaged, left on disk
GitResetPaths(r, paths) ==
    [r EXCEPT !.index = r.index \ paths, !.worktree = r.worktree \cup paths]

\* a hook commit: its message lists the files kept out, with their sizes
GitCommitListing(r, skipped) ==
    [r EXCEPT !.commits = Append(r.commits,
                                 [kind |-> "LLM", files |-> r.index,
                                  on |-> r.branch,
                                  skipped |-> {[path |-> f, size |-> FileSize(f)] :
                                                  f \in skipped}]),
              !.heads = [r.heads EXCEPT ![r.branch] = Len(r.commits) + 1],
              !.index = {}]

\* create_commit (lines 311-407): never raises; a failed git command is
\* caught and logged
create_commit(r, ft) ==
    LET staged == GitAddAll(r)
        large == LargeFiles(staged)
        kept == GitResetPaths(staged, large)
    IN  IF Faulty(ft, <<"hook", "add">>) THEN r
        ELSE IF GitDiffCachedQuiet(staged) = 0 THEN staged
        ELSE IF Faulty(ft, <<"hook", "commit">>) \/ GitCommitRefuses(kept)
        THEN kept
        ELSE GitCommitListing(kept, large)

\* an entry of the transcript: after: its timestamp is later than the last
\* commit's; noise: is_noise_message; empty: its text is empty or blank
Entries == [after : BOOLEAN, noise : BOOLEAN, empty : BOOLEAN]

RECURSIVE TranscriptsUpTo(_)
TranscriptsUpTo(n) ==
    IF n = 0 THEN {<< >>}
    ELSE TranscriptsUpTo(n - 1)
             \cup {Append(t, e) : t \in TranscriptsUpTo(n - 1), e \in Entries}

IsNewer(e) == e.after

HasText(e) == ~e.noise /\ ~e.empty

\* get_new_prompt_and_response (lines 199-251): prompt and response are
\* assigned only inside the loops; with no entry that has text, line 250
\* reads an unassigned local and raises UnboundLocalError
get_new_prompt_and_response(transcript) ==
    LET entries == SelectSeq(transcript, IsNewer)
    IN  [raised |-> \A i \in 1..Len(entries) : ~HasText(entries[i])]

\* what the hook reads on its standard input
StdinKinds == {"invalid json", "no transcript_path", "valid"}

HookSites == {<<"hook", "rev-parse --abbrev-ref">>, <<"hook", "add">>,
              <<"hook", "commit">>}

\* main (lines 443-554): the repository it leaves and its exit code
main(r, stdin, transcript, ft) ==
    LET copied == [r EXCEPT !.worktree = r.worktree \cup {SessionLogDir}]
        converted == [copied EXCEPT
                          !.worktree = copied.worktree \cup {SessionLogDir}]
    IN  IF stdin = "invalid json"
        THEN [repo |-> r, exit |-> 1, stage |-> "invalid json"]
        ELSE IF stdin = "no transcript_path"
        THEN [repo |-> r, exit |-> 1, stage |-> "no transcript path"]
        ELSE IF Faulty(ft, <<"hook", "rev-parse --abbrev-ref">>)
        THEN [repo |-> r, exit |-> 1, stage |-> "unexpected error"]
        ELSE IF get_new_prompt_and_response(transcript).raised
        THEN [repo |-> copied, exit |-> 1, stage |-> "unexpected error"]
        ELSE IF IsSessionBranch(r.branch)
        THEN [repo |-> create_commit(converted, ft), exit |-> 0,
              stage |-> "commit"]
        ELSE [repo |-> converted, exit |-> 0, stage |-> "not a session branch"]

\* the commits the hook has made
HookCommits(r) ==
    Cardinality({i \in 1..Len(r.commits) : r.commits[i].kind = "LLM"})

\* the hook is run on an input
RunHook ==
    \E stdin \in StdinKinds, transcript \in TranscriptsUpTo(MaxEntries),
       ft \in FaultSets(HookSites) :
        LET Handler(f) == main(repo, stdin, transcript, f)
            res == Handler(ft)
        IN  /\ Effective(Handler, ft)
            /\ HookCommits(res.repo) <= MaxHookCommits
            /\ repo' = res.repo
            /\ faults' = faults + Cardinality(ft)
            /\ UNCHANGED <<mgr, sub, env>>
            /\ last' = [op |-> "hook", raised |-> res.exit # 0,
                        stage |-> res.stage, ft |-> ft, from |-> repo.branch,
                        stdin |-> stdin, exit |-> res.exit,
                        newtext |-> \E i \in 1..Len(transcript) :
                                        IsNewer(transcript[i]) /\ HasText(transcript[i])]

\* the experiment writes a file
WriteFile ==
    \E f \in HookFiles :
        /\ repo' = [repo EXCEPT !.worktree = repo.worktree \cup {f}]
        /\ UNCHANGED <<mgr, sub, env, faults>>
        /\ last' = Last("write", Res(World, FALSE, "written"), {})

\* the repository holds a session branch next to main
InitHook == InitWorld(FALSE, {Str0}, {StampedName})

NextHook ==
    \/ RunHook
    \/ WriteFile
    \/ ExternalCheckout

SpecHook == InitHook /\ [][NextHook]_vars

\* the host application next to another process that creates branches
NextRace ==
    \/ Next
    \/ StartSessionRaced

SpecRace == Init /\ [][NextRace]_vars

(***************************************************************************)
(* What the repository really holds, for comparison with the cache.        *)
(***************************************************************************)
CacheMatchesRepository ==
    /\ mgr.current_branch = repo.branch
    /\ mgr.current_commit_hash = HeadCommit(repo)
    /\ mgr.has_uncommitted_changes = StatusPorcelain(World, ~mgr.manage_submodules)

(***************************************************************************)
(* The claims.                                                             *)
(***************************************************************************)

\* C1: in every reachable state the cached fields agree with each other:
\* session_branch is non-empty iff session_active iff the cached
\* current_branch carries the session prefix, and a non-empty session_branch
\* equals current_branch.  The code breaks it: see C2.
C1_CacheConsistent ==
    /\ (mgr.session_branch # Str0) <=> mgr.session_active
    /\ mgr.session_active <=> IsSessionBranch(mgr.current_branch)
    /\ mgr.session_branch # Str0 => mgr.session_branch = mgr.current_branch

\* C2: a refresh in which one of the three queries fails leaves every cached
\* field as it was.  The code assigns current_branch (and the commit id)
\* before the failing query raises.
C2_FailedRefreshKeepsCache ==
    [][(last'.op = "refresh" /\ last'.ft # {}) => mgr' = mgr]_vars

\* how the last operation ended: it returned to its caller without raising
Returned(ops) == last.op \in ops /\ ~last.raised

\* none of the three queries of the operation's closing refresh failed
ClosingRefreshRan == last.ft \cap RefreshSites(last.op) = {}

\* C3 (as stated): whenever start, commit, end or returnToParent returns
\* without raising, the cached branch, commit and dirty flag equal the
\* repository's actual values.
C3_EveryReturnRefreshes ==
    Returned({"start", "commit", "end", "return"}) => CacheMatchesRepository

\* C3 (amended): start, end and returnToParent refresh as their last step on
\* every normal return, commit only on the path that created a commit; after
\* such a return whose closing refresh had all three queries succeed, the
\* cached branch, commit and dirty flag equal the repository's actual values.
C3_RefreshedReturnsMatch ==
    /\ (Returned({"start", "end", "return"}) /\ ClosingRefreshRan)
           => CacheMatchesRepository
    /\ (Returned({"commit"}) /\ last.stage = "committed" /\ ClosingRefreshRan)
           => CacheMatchesRepository

\* end() made its final commit and refreshed
C3_EndCommittedAndRefreshed ==
    /\ Returned({"end"})
    /\ last.stage = "committed"
    /\ ClosingRefreshRan
    /\ repo.commits[Len(repo.commits)].kind = "Final"

\* C4: after every successful start(), from Idle or from Active, parent_branch
\* is non-empty and is the branch the repository was on immediately before
\* the start (the branch the session branch was created from).
C4_ParentIsBranchStartedFrom ==
    Returned({"start"}) =>
        /\ mgr.parent_branch # Str0
        /\ mgr.parent_branch = last.from

\* the branches of the repository
Branches(r) == DOMAIN r.heads

\* the name the claim promises for a base: the base when free, else base-n for
\* the smallest n >= 1 with base-n free (one of the first |branches| + 1)
FirstFreeName(r, base) ==
    IF base \notin Branches(r) THEN base
    ELSE LET n == CHOOSE k \in 1..(Cardinality(Branches(r)) + 1) :
                      /\ Suffixed(base, k) \notin Branches(r)
                      /\ \A j \in 1..(k - 1) : Suffixed(base, j) \in Branches(r)
         IN  Suffixed(base, n)

\* C5: the branch start() creates is the generated base name when no branch
\* of that name exists, otherwise base-n for the smallest n >= 1 such that
\* base-n does not exist.
C5_CreatesFirstFreeName ==
    [][(last'.op = "start" /\ Branches(repo') # Branches(repo))
          => /\ Branches(repo') = Branches(repo) \cup {FirstFreeName(repo, last'.base)}
             /\ repo'.branch = FirstFreeName(repo, last'.base)]_vars

\* three collisions in a row: start() has created base-3
C5_ThirdSuffixCreated ==
    /\ Returned({"start"})
    /\ last.name = Suffixed(last.base, 3)
    /\ repo.branch = last.name
    /\ {last.base, Suffixed(last.base, 1), Suffixed(last.base, 2)}
           \subseteq Branches(repo)

\* C6: when another process creates a branch of the chosen name between the
\* probe and the branch creation, start() raises to its caller, and the other
\* process's branch still points at the commit it was created at; the
\* repository stays on the branch it was on.
C6_LostRaceRaises ==
    (last.op = "start" /\ last.race # 0) =>
        /\ last.raised
        /\ last.name \in Branches(repo)
        /\ repo.heads[last.name] = last.race
        /\ repo.branch = last.from

\* a race lost while HEAD is at another commit than the other process's branch
C6_RaceLostAwayFromHead ==
    /\ last.op = "start"
    /\ last.race # 0
    /\ last.ft = {}
    /\ HeadCommit(repo) # last.race

\* C7: when start() fails at a step up to and including git checkout -b, the
\* repository is as it was (branch, branches, tags, commits, index, working
\* tree) and no submodule has been touched.
C7_FailedCheckoutLeavesRepository ==
    [][(last'.op = "start" /\ last'.raised /\ last'.stage = "checkout")
          => (repo' = repo /\ sub' = sub)]_vars

\* start() has raised at git checkout -b with submodule management on
C7_StartRaisedAtCheckout ==
    /\ last.op = "start"
    /\ last.raised
    /\ last.stage = "checkout"
    /\ last.ft = {<<"start", "checkout -b">>}
    /\ mgr.manage_submodules

\* the commands of commit_initial_session_state that raise when they fail
InitialCommitCommands == {<<"start", "add">>, <<"start", "commit">>}

\* C8: when git add or git commit of the initial-state commit fails, after
\* the branch switch, start() raises to its caller and the repository is on
\* the session branch the start has just created.
C8_FailedInitialCommitStaysOnBranch ==
    [][(last'.op = "start" /\ last'.ft \cap InitialCommitCommands # {})
          => /\ last'.raised
             /\ last'.name \notin Branches(repo)
             /\ Branches(repo') = Branches(repo) \cup {last'.name}
             /\ repo'.branch = last'.name]_vars

\* start() has raised at its initial commit, with changes staged
C8_StartRaisedAtInitialCommit ==
    /\ last.op = "start"
    /\ last.raised
    /\ last.ft = {<<"start", "commit">>}
    /\ repo.index # {}
    /\ repo.branch = last.name

\* the one command of the last start() that failed is git tag
OnlyTagFailed == last.op = "start" /\ last.ft = {<<"start", "tag">>}

\* HEAD is a commit made on the branch the last start() chose
HeadIsCommitOfSession == repo.commits[HeadCommit(repo)].on = last.name

\* C9 (as stated): when tagging fails and every other step succeeds, start()
\* returns normally, the repository is on the new session branch with its
\* initial commit, and the status refresh has run (session_active is true).
C9_TagFailureKeepsStartAndCommit ==
    OnlyTagFailed =>
        /\ ~last.raised
        /\ repo.branch = last.name
        /\ HeadIsCommitOfSession
        /\ mgr.session_active /\ CacheMatchesRepository

\* C9 (amended): when tagging fails and every other step succeeds, start()
\* returns normally, the repository is on the new session branch, no start tag
\* exists, and the status refresh has run (session_active is true); the branch
\* carries its initial commit unless the working tree's changes left nothing
\* staged after git add, in which case no commit was made.
C9_TagFailureKeepsStart ==
    OnlyTagFailed =>
        /\ ~last.raised
        /\ repo.branch = last.name
        /\ last.stage # "nothing staged" => HeadIsCommitOfSession
        /\ last.stage = "nothing staged" =>
               repo.commits[HeadCommit(repo)].on # last.name
        /\ TagName(StartTag, last.name) \notin DOMAIN repo.tags
        /\ mgr.session_active /\ CacheMatchesRepository

\* a start() whose tag failed, with the changed files in its initial commit
C9_UntaggedStartWithSnapshot ==
    /\ OnlyTagFailed
    /\ last.stage = "initial commit"
    /\ repo.commits[HeadCommit(repo)].files # {}
    /\ repo.tags = << >>

\* the commit made last
NewestCommit(r) == r.commits[Len(r.commits)]

\* C10: a start() on a working tree with no local changes succeeds (when no
\* command fails) and, when it succeeds, has created exactly one commit, on
\* the new session branch, empty, with nothing staged afterward; a start()
\* from a session branch is no exception.
C10_CleanStartMakesOneEmptyCommit ==
    [][(last'.op = "start" /\ ~StatusPorcelain(World, FALSE))
          => /\ last'.ft = {} => ~last'.raised
             /\ ~last'.raised =>
                   /\ Len(repo'.commits) = Len(repo.commits) + 1
                   /\ HeadCommit(repo') = Len(repo'.commits)
                   /\ NewestCommit(repo').on = last'.name
                   /\ NewestCommit(repo').files = {}
                   /\ repo'.branch = last'.name
                   /\ repo'.index = {}]_vars

\* a start() with a changed file, then at once a start() from that session
\* branch on the tree the first left clean
C10_NestedStartOnCleanTree ==
    /\ Returned({"start"})
    /\ IsSessionBranch(last.from)
    /\ Len(repo.commits) = 3
    /\ repo.commits[2].files # {}
    /\ repo.commits[2].on = last.from
    /\ NewestCommit(repo).files = {}
    /\ NewestCommit(repo).on = repo.branch
    /\ repo.branch # last.from

\* the commands of commit_initial_session_state's staging path
StagingCommands ==
    {<<"start", "status">>, <<"start", "add">>, <<"start", "diff --cached">>,
     <<"start", "commit">>}

\* C11: when start() finds a non-empty working-tree status (and none of the
\* staging commands fails), it stages everything and looks at what is staged:
\* with something staged it creates exactly one commit, holding what was
\* staged; with nothing staged it creates no commit and raises no error, and
\* start() completes.
C11_StagesThenCommitsIfStaged ==
    [][(/\ last'.op = "start"
        /\ last'.stage # "checkout"
        /\ StatusPorcelain(World, FALSE)
        /\ last'.ft \cap StagingCommands = {})
          => /\ ~last'.raised
             /\ IF GitAddAll(repo).index # {}
                THEN /\ Len(repo'.commits) = Len(repo.commits) + 1
                     /\ NewestCommit(repo').files = GitAddAll(repo).index
                     /\ NewestCommit(repo').on = last'.name
                     /\ HeadCommit(repo') = Len(repo'.commits)
                     /\ repo'.index = {} /\ repo'.worktree = {}
                ELSE /\ repo'.commits = repo.commits
                     /\ HeadCommit(repo') = HeadCommit(repo)
                     /\ repo'.branch = last'.name]_vars

\* a start() that found only a submodule's content changed: nothing staged,
\* nothing committed, and the session is running
C11_StartedWithNothingStaged ==
    /\ Returned({"start"})
    /\ last.stage = "nothing staged"
    /\ last.ft = {}
    /\ mgr.session_active
    /\ \E p \in Submodules : sub.mods[p].dirty

\* C12: commit() and end() called while the manager is not active raise the
\* no-active-session error before any command that changes the repository:
\* nothing is staged or committed, no submodule is touched, and the cached
\* state is as it was.
C12_InactiveCommitAndEndRaiseFirst ==
    [][(last'.op \in {"commit", "end"} /\ ~mgr.session_active)
          => /\ last'.raised
             /\ last'.stage = "no active session"
             /\ repo' = repo /\ sub' = sub /\ mgr' = mgr]_vars

\* end() has raised on a parent branch whose changes the cache knows of
C12_EndRaisedWithChangesPending ==
    /\ last.op = "end"
    /\ last.raised
    /\ last.stage = "no active session"
    /\ mgr.has_uncommitted_changes
    /\ repo.worktree # {}

\* C13: commit(final=false) in an active session on a clean working tree (no
\* command failing) is a no-op: it returns to its caller without raising,
\* creates no commit, stages nothing and touches no submodule, and a refresh
\* after it finds has_uncommitted_changes false.
C13_CleanCommitIsNoOp ==
    [][(/\ last'.op = "commit"
        /\ last'.ft = {}
        /\ mgr.session_active
        /\ ~StatusPorcelain(World, FALSE))
          => /\ ~last'.raised
             /\ repo' = repo /\ sub' = sub
             /\ ~RefreshMgr(World', "refresh", {}).has_uncommitted_changes]_vars

\* C14: in a session started from the parent branch, a tracked file is edited
\* and commit(false) is called next, with no manager operation in between (and
\* no command failing): commit(false) creates exactly one new commit, on the
\* session branch, holding the edit, with a Progress message.
C14_EditThenCommitMakesProgressCommit ==
    [][(/\ last.op = "edit"
        /\ last'.op = "commit"
        /\ last'.ft = {}
        /\ mgr.session_active
        /\ mgr.current_branch = repo.branch
        /\ IsSessionBranch(repo.branch))
          => /\ ~last'.raised
             /\ Len(repo'.commits) = Len(repo.commits) + 1
             /\ NewestCommit(repo').kind = "Progress"
             /\ NewestCommit(repo').on = repo.branch
             /\ repo.worktree \subseteq NewestCommit(repo').files
             /\ repo'.branch = repo.branch]_vars

\* the steps at which an operation issues git commit
CommitSteps == {"commit", "initial commit"}

\* C15: when no command fails for another reason, a git commit that exits
\* non-zero because there is nothing to commit is taken for success: no
\* operation raises at its commit step.
C15_NothingToCommitIsSuccess ==
    (last.op \in {"start", "commit", "end", "return"} /\ last.ft = {}
        /\ last.stage \in CommitSteps)
      => ~last.raised

\* the submodule commands of commit(): the foreach that stages and each
\* submodule's commit
SubmoduleCommitCommands ==
    {<<"commit", "submodule foreach add">>}
    \cup {<<"commit", "sub commit", p>> : p \in Submodules}

\* C16: with manage_submodules set, commit() runs the submodule stage and
\* commit commands before it stages the superproject (a submodule commit that
\* went through is part of what the superproject commits), and when only
\* submodule commands fail commit() still returns success with the
\* superproject's changes staged and committed.
C16_SubmoduleFailuresKeepCommit ==
    [][(/\ last'.op = "commit"
        /\ mgr.manage_submodules
        /\ mgr.session_active /\ mgr.has_uncommitted_changes
        /\ last'.ft \subseteq SubmoduleCommitCommands)
          => /\ ~last'.raised
             /\ GitAddAll(repo).index # {} =>
                   /\ Len(repo'.commits) = Len(repo.commits) + 1
                   /\ GitAddAll(repo).index \subseteq NewestCommit(repo').files
             /\ (sub.mods[SubOrder[1]].dirty /\ last'.ft = {}) =>
                   SubOrder[1] \in NewestCommit(repo').files]_vars

C18_EndCommitsPendingChangesOnce ==
    [][(/\ last'.op = "end" /\ ~last'.raised /\ last'.ft = {}
        /\ mgr.session_active)
          => IF StatusPorcelain(World, FALSE)
             THEN /\ Len(repo'.commits) = Len(repo.commits) + 1
                  /\ NewestCommit(repo').kind = "Final"
                  /\ GitAddAll(repo).index \subseteq NewestCommit(repo').files
                  /\ ~mgr'.has_uncommitted_changes
             ELSE repo'.commits = repo.commits]_vars

\* C19: returnToParent() with no parent branch recorded raises the
\* no-parent-recorded error and changes nothing: no commit, no branch switch
\* in the superproject or in a submodule, and the cached state is as before.
C19_NoParentReturnRaisesFirst ==
    [][(last'.op = "return" /\ mgr.parent_branch = Str0)
          => /\ last'.raised /\ last'.stage = "no parent branch"
             /\ repo' = repo /\ sub' = sub /\ mgr' = mgr]_vars

\* a return was refused for want of a parent while the cache said a session
\* was running with changes pending and a submodule stood on a session branch
C19_ReturnRefusedInSession ==
    /\ last.op = "return" /\ last.raised /\ last.stage = "no parent branch"
    /\ mgr.session_active /\ mgr.has_uncommitted_changes
    /\ \E p \in Submodules : IsSessionBranch(sub.mods[p].branch)

\* C20 (as stated): after every successful returnToParent() the repository's
\* current branch and the cached current_branch both equal the parent branch
\* recorded before the call.
C20_ReturnEndsOnParentEverywhere ==
    [][(last'.op = "return" /\ ~last'.raised)
          => /\ repo'.branch = mgr.parent_branch
             /\ mgr'.current_branch = mgr.parent_branch]_vars

\* C20 (amended): after every successful returnToParent() the repository's
\* current branch equals the parent branch recorded before the call, and so
\* does the cached current_branch when the branch query of the closing
\* refresh succeeded.
C20_ReturnEndsOnParent ==
    [][(last'.op = "return" /\ ~last'.raised)
          => /\ repo'.branch = mgr.parent_branch
             /\ <<"return", "rev-parse --abbrev-ref">> \notin last'.ft
                   => mgr'.current_branch = mgr.parent_branch]_vars

\* a return that closed a running session with a final commit and left the
\* repository and the cache on the parent branch
C20_ReturnedAfterFinalCommit ==
    /\ last.op = "return" /\ ~last.raised
    /\ IsSessionBranch(last.from) /\ ~IsSessionBranch(repo.branch)
    /\ repo.branch = mgr.parent_branch /\ mgr.current_branch = repo.branch
    /\ \E i \in 1..Len(repo.commits) :
          repo.commits[i].kind = "Final" /\ repo.commits[i].on = last.from

\* C21 (as stated): after every successful returnToParent(), from any state
\* in which a parent branch is recorded, the manager is idle: session_active
\* is false and session_branch is empty.
C21_ReturnLeavesIdle ==
    [][(last'.op = "return" /\ ~last'.raised /\ mgr.parent_branch # Str0)
          => ~mgr'.session_active /\ mgr'.session_branch = Str0]_vars

\* C21 (amended): after every successful returnToParent() to a recorded
\* parent branch that is not itself a session branch, and whose closing
\* refresh had its three queries succeed, the manager is idle: session_active
\* is false and session_branch is empty.
C21_ReturnToPlainParentLeavesIdle ==
    [][(/\ last'.op = "return" /\ ~last'.raised
        /\ mgr.parent_branch # Str0 /\ ~IsSessionBranch(mgr.parent_branch)
        /\ last'.ft \cap RefreshSites("return") = {})
          => ~mgr'.session_active /\ mgr'.session_branch = Str0]_vars

\* the second session of the run has been returned from, and the manager is
\* idle on the parent
C21_ReturnedIdleAfterSecondSession ==
    /\ last.op = "return" /\ ~last.raised
    /\ IsSessionBranch(last.from) /\ ~IsSessionBranch(repo.branch)
    /\ ~mgr.session_active /\ mgr.session_branch = Str0
    /\ Cardinality({b \in DOMAIN repo.heads : IsSessionBranch(b)}) = 2

\* C22: a returnToParent() called while a session is active ends the session
\* first: the changes the working tree holds at the call are committed on
\* the session branch in a Final commit before the checkout of the parent
\* branch, and none of them is carried over to the parent branch.
C22_ReturnCommitsBeforeSwitch ==
    [][(/\ last'.op = "return" /\ ~last'.raised /\ last'.ft = {}
        /\ mgr.session_active
        /\ GitAddAll(repo).index # {})
          => /\ Len(repo'.commits) = Len(repo.commits) + 1
             /\ NewestCommit(repo').kind = "Final"
             /\ NewestCommit(repo').on = repo.branch
             /\ GitAddAll(repo).index \subseteq NewestCommit(repo').files
             /\ GitAddAll(repo').index = {}]_vars

\* C23: with a session S2 started from a session S1 started from a branch R,
\* one returnToParent() per start, in reverse order, brings the repository
\* back to R: the return that follows the return from S2 to S1 ends on R.
C23_ReturnsUnwindNestedSessions ==
    [][(/\ last.op = "return" /\ ~last.raised
        /\ last.from = Suffixed(StampedName, 1) /\ repo.branch = StampedName
        /\ last'.op = "return" /\ ~last'.raised)
          => repo'.branch = Main]_vars

\* C24: parent_branch is changed only by start(): refresh(), commit(), end()
\* and returnToParent(), whether they succeed or raise, leave it as it was
\* (so it persists across a return to the parent).
C24_OnlyStartChangesParent ==
    [][last'.op \in {"refresh", "commit", "end", "return"}
          => mgr'.parent_branch = mgr.parent_branch]_vars

\* a session has been returned from, and the parent it was started from is
\* still recorded
C24_ParentKeptAcrossReturn ==
    /\ last.op = "return" /\ ~last.raised
    /\ IsSessionBranch(last.from)
    /\ mgr.parent_branch # Str0 /\ mgr.parent_branch = repo.branch

\* the steps commit_initial_session_state can end at
InitialCommitStages ==
    {"empty commit", "initial commit", "nothing staged", "nothing to commit"}

\* C25: in start_session_in_submodules a failure in one submodule does not
\* stop the loop: every submodule whose own two commands go through is
\* switched to the session branch, whether it comes before or after the one
\* that failed, and start() goes on to the initial commit.
C25_SubmoduleFailureIsLocal ==
    [][(/\ last'.op = "start" /\ mgr.manage_submodules
        /\ last'.stage # "checkout"
        /\ <<"start", "config --get-regexp path">> \notin last'.ft)
          => /\ \A p \in Submodules :
                   (/\ <<"start", "sub rev-parse", p>> \notin last'.ft
                    /\ <<"start", "sub checkout -b", p>> \notin last'.ft
                    /\ last'.name \notin sub.mods[p].branches)
                      => /\ sub'.mods[p].branch = last'.name
                         /\ last'.name \in sub'.mods[p].branches
             /\ last'.stage \in InitialCommitStages]_vars

\* the first submodule's command failed, the second submodule is on the
\* session branch and the start commit is made
C25_LaterSubmoduleSwitched ==
    /\ last.op = "start" /\ ~last.raised
    /\ \E site \in last.ft : Len(site) = 3 /\ site[3] = SubOrder[1]
    /\ sub.mods[SubOrder[1]].branch # last.name
    /\ sub.mods[SubOrder[2]].branch = last.name
    /\ repo.branch = last.name /\ NewestCommit(repo).on = last.name

\* the paths whose branch start_session_in_submodules reads in a call in
\* which the commands of ft fail
CollectedPaths(ft) ==
    IF <<"start", "config --get-regexp path">> \in ft THEN {}
    ELSE {p \in Submodules : <<"start", "sub rev-parse", p>> \notin ft}

\* C26: after every start() with manage_submodules set the persisted record
\* of submodule parents holds exactly the path-to-prior-branch mapping this
\* start collected, and no entry of an earlier start, however many
\* submodules this start processed.
C26_RecordHoldsThisStartOnly ==
    [][(/\ last'.op = "start" /\ mgr.manage_submodules
        /\ last'.stage # "checkout"
        /\ <<"start", "write parents file">> \notin last'.ft)
          => /\ DOMAIN sub'.parents = CollectedPaths(last'.ft)
             /\ \A p \in CollectedPaths(last'.ft) :
                   sub'.parents[p] = sub.mods[p].branch]_vars

\* the commands of return_submodules_to_parent_branch that concern path p
RestoreCommands(p) ==
    {<<"return", "config --get-regexp path">>, <<"return", "read parents file">>,
     <<"return", "sub status", p>>, <<"return", "sub checkout", p>>}

\* C27: the restore of a return changes a submodule's branch only if the
\* submodule holds no uncommitted changes and has an entry in the persisted
\* record, and then to the recorded branch; a dirty submodule and one without
\* an entry keep their branch, and a submodule that is skipped does not keep
\* a clean, recorded submodule from being restored.
C27_RestoreOnlyCleanRecorded ==
    [][last'.op = "return"
          => \A p \in Submodules :
                /\ sub'.mods[p].branch # sub.mods[p].branch
                      => /\ ~sub'.mods[p].dirty
                         /\ p \in DOMAIN sub.parents
                         /\ sub'.mods[p].branch = sub.parents[p]
                /\ (/\ mgr.manage_submodules
                    /\ last'.stage \in {"returned", "checkout"}
                    /\ last'.ft \cap RestoreCommands(p) = {}
                    /\ ~sub'.mods[p].dirty
                    /\ p \in DOMAIN sub.parents
                    /\ sub.parents[p] \in sub.mods[p].branches)
                      => sub'.mods[p].branch = sub.parents[p]]_vars

\* a return skipped the first submodule, which holds changes and stays on
\* the session branch, and restored the second
C27_DirtySkippedCleanRestored ==
    /\ last.op = "return" /\ ~last.raised /\ last.ft = {}
    /\ sub.mods[SubOrder[1]].dirty
    /\ IsSessionBranch(sub.mods[SubOrder[1]].branch)
    /\ ~sub.mods[SubOrder[2]].dirty
    /\ sub.mods[SubOrder[2]].branch = SubDev
    /\ sub.parents[SubOrder[2]] = SubDev
    /\ IsSessionBranch(last.from)

\* the world a step leaves
WorldAfter == [mgr |-> mgr', repo |-> repo', sub |-> sub']

\* C28: round trip.  From an idle manager on branch B with manage_submodules
\* set and every submodule clean, a start() and the returnToParent() that
\* follows it, with no command failing, leave the superproject on B and
\* every submodule on the branch it was on before the start().
C28_StartThenReturnRestores ==
    [][(/\ last'.op = "start" /\ ~last'.raised /\ last'.ft = {}
        /\ mgr.manage_submodules
        /\ ~mgr.session_active /\ mgr.current_branch = repo.branch
        /\ ~IsSessionBranch(repo.branch)
        /\ \A p \in Submodules : ~sub.mods[p].dirty)
          => LET back == return_to_parent_branch(WorldAfter, {})
             IN  /\ ~back.raised
                 /\ back.w.repo.branch = repo.branch
                 /\ back.w.mgr.current_branch = repo.branch
                 /\ \A p \in Submodules :
                       back.w.sub.mods[p].branch = sub.mods[p].branch]_vars

\* a session was started with clean submodules and returned from at once:
\* the superproject and both submodules are back where they were
C28_BackWhereItStarted ==
    /\ last.op = "return" /\ ~last.raised /\ last.ft = {}
    /\ IsSessionBranch(last.from)
    /\ repo.branch = Main /\ mgr.current_branch = Main
    /\ \A p \in Submodules :
          /\ sub.mods[p].branch = SubDev /\ ~sub.mods[p].dirty
          /\ last.from \in sub.mods[p].branches

\* C29: after a refresh() whose three queries succeed, the cached
\* current_branch, current_commit_hash and has_uncommitted_changes equal the
\* repository's branch, HEAD commit and status at that moment, whatever the
\* cache held before and whatever has changed in the repository since the
\* last operation; and the refresh changes nothing in the repository.
C29_RefreshReadsRepository ==
    [][(last'.op = "refresh" /\ last'.ft = {})
          => /\ mgr'.current_branch = repo'.branch
             /\ mgr'.current_commit_hash = HeadCommit(repo')
             /\ mgr'.has_uncommitted_changes =
                    StatusPorcelain(WorldAfter, ~mgr'.manage_submodules)
             /\ repo' = repo /\ sub' = sub]_vars

\* a refresh has succeeded, after a command of an earlier operation failed,
\* in a session in which a submodule was changed behind the manager's back
C29_RefreshedInChangedSession ==
    /\ last.op = "refresh" /\ last.ft = {} /\ faults > 0
    /\ IsSessionBranch(repo.branch)
    /\ \E p \in Submodules : sub.mods[p].dirty
    /\ mgr.has_uncommitted_changes
    /\ CacheMatchesRepository

\* C30: after a refresh() whose queries succeed, session_active is true if
\* and only if the name of the current branch starts with "session-"; on a
\* branch named "session" or "sessions" it is false.
C30_ActiveIffPrefixAndHyphen ==
    [][(last'.op = "refresh" /\ last'.ft = {})
          => /\ mgr'.session_active
                   <=> StartsWith(repo'.branch, SESSION_PREFIX \o Hyphen)
             /\ repo'.branch \in {SESSION_PREFIX, SESSION_PREFIX \o <<"s">>}
                   => ~mgr'.session_active]_vars

\* a refresh on the branch "sessions", with a file changed, has left the
\* manager idle
C30_RefreshedOnSessions ==
    /\ last.op = "refresh" /\ last.ft = {}
    /\ repo.branch = SESSION_PREFIX \o <<"s">>
    /\ mgr.current_branch = repo.branch
    /\ ~mgr.session_active /\ mgr.session_branch = Str0
    /\ mgr.has_uncommitted_changes

\* the characters of [A-Za-z0-9] among those of the model
AsciiAlnumChars == AlnumChars \ {"U+00E9"}

\* the cleaned name as the claim words it: whitespace and underscores become
\* hyphens, every character outside [A-Za-z0-9-.] is removed
FoldedAndStripped(n) ==
    LET fold(c) == IF c \in {" ", "U+0009", "_"} THEN "-" ELSE c
        keep(c) == c \in AsciiAlnumChars \cup {"-", "."}
    IN  SelectSeq([i \in 1..Len(n) |-> fold(n[i])], keep)

\* C31: for every session name over the alphabet, the empty name and the
\* names that clean to nothing included, the generated branch name is
\* session-<timestamp>, followed by a hyphen and the cleaned name exactly
\* when the cleaned name is not empty; the cleaned name is the typed name
\* with whitespace and underscores turned into hyphens and every character
\* outside [A-Za-z0-9-.] removed.
C31_GeneratedNameIsWellFormed ==
    last.op = "generate"
        => \E ts \in Timestamps :
              last.base = IF FoldedAndStripped(last.typed) = Str0
                          THEN SESSION_PREFIX \o Hyphen \o <<ts>>
                          ELSE SESSION_PREFIX \o Hyphen \o <<ts>> \o Hyphen
                                   \o FoldedAndStripped(last.typed)

\* C32: the hook exits with code 1 when its standard input is not valid
\* JSON, holds no transcript path, or a command fails unexpectedly, and with
\* code 0 otherwise: when it handled the event or skipped it, in particular
\* when the transcript holds no message with text newer than the last commit
\* and when the current branch is not a session branch.
C32_HookExitCodes ==
    LET failed == <<"hook", "rev-parse --abbrev-ref">> \in last.ft
    IN  last.op = "hook" =>
            /\ last.exit \in {0, 1}
            /\ last.exit = 1 <=> (last.stdin # "valid" \/ failed)
            /\ (last.stdin = "valid" /\ ~failed /\ ~last.newtext) => last.exit = 0
            /\ (last.stdin = "valid" /\ ~failed /\ ~IsSessionBranch(last.from))
                   => last.exit = 0

ChangedAtHook == repo.index \cup repo.worktree \cup {SessionLogDir}

\* C33: a commit created by the hook holds no file larger than 10 MiB: each
\* such file is unstaged before the commit and listed in the message with
\* its size, while the files of at most 10 MiB, one of exactly 10 MiB
\* included, are committed.
C33_HookKeepsLargeFilesOut ==
    [][(last'.op = "hook" /\ Len(repo'.commits) = Len(repo.commits) + 1)
          => /\ NewestCommit(repo').files =
                    {f \in ChangedAtHook : FileSize(f) <= MAX_FILE_SIZE}
             /\ NewestCommit(repo').skipped =
                    {[path |-> f, size |-> FileSize(f)] :
                        f \in {g \in ChangedAtHook : FileSize(g) > MAX_FILE_SIZE}}]_vars

\* C34: when the checkout of the parent branch is rejected,
\* return_to_parent_branch raises and the superproject stays on the branch it
\* was on, but with manage_submodules set every clean submodule with a
\* recorded parent has already been switched back to it, and stays there.
C34_RejectedReturnKeepsRestore ==
    [][(last'.op = "return" /\ last'.stage = "checkout")
          => /\ last'.raised
             /\ repo'.branch = repo.branch
             /\ mgr.manage_submodules
                   => \A p \in Submodules :
                         (/\ last'.ft \cap RestoreCommands(p) = {}
                          /\ ~sub.mods[p].dirty
                          /\ p \in DOMAIN sub.parents
                          /\ sub.parents[p] \in sub.mods[p].branches)
                            => sub'.mods[p].branch = sub.parents[p]]_vars

\* a return was rejected at the checkout: the superproject is still on the
\* session branch, and a submodule that was on it is back on its own branch
C34_RejectedWithSubmodulesBack ==
    /\ last.op = "return" /\ last.raised /\ last.stage = "checkout"
    /\ IsSessionBranch(repo.branch) /\ repo.branch = last.from
    /\ \E p \in Submodules :
          /\ repo.branch \in sub.mods[p].branches
          /\ sub.mods[p].branch = SubDev /\ sub.parents[p] = SubDev

\* C35: start_experimental_session overwrites parent_branch with the cached
\* current_branch before it runs any repository command: after every start,
\* the ones that fail at the probe or at the creation of the branch included,
\* parent_branch is the current_branch the cache held at the call.
C35_StartRecordsParentFirst ==
    [][last'.op = "start" => mgr'.parent_branch = mgr.current_branch]_vars

\* a start inside a running session failed at the creation of the branch:
\* the repository is still on the session branch, which is now the parent
C35_FailedNestedStartMovedParent ==
    /\ last.op = "start" /\ last.raised /\ last.stage = "checkout"
    /\ IsSessionBranch(last.from) /\ repo.branch = last.from
    /\ last.name \notin DOMAIN repo.heads
    /\ mgr.parent_branch = last.from

\* C36: when start_experimental_session fails after the branch switch, no
\* refresh is performed: the repository is on the new session branch while
\* the cached current_branch, session_active and session_branch are what they
\* were before the call, and a commit that follows is judged against that
\* session_active.
C36_FailedStartLeavesCacheBehind ==
    [][(last'.op = "start" /\ last'.raised /\ last'.stage # "checkout")
          => /\ repo'.branch = last'.name /\ repo'.branch # repo.branch
             /\ mgr'.current_branch = mgr.current_branch
             /\ mgr'.session_active = mgr.session_active
             /\ mgr'.session_branch = mgr.session_branch
             /\ ~mgr.session_active
                   => commit_session_changes(WorldAfter, FALSE, {}).stage
                          = "no active session"]_vars

\* a first start has failed at its initial commit: the repository is on the
\* session branch, the cache still shows the idle manager on main
C36_OnSessionBranchShownIdle ==
    /\ last.op = "start" /\ last.raised /\ last.stage # "checkout"
    /\ IsSessionBranch(repo.branch) /\ repo.branch = last.name
    /\ mgr.current_branch = Main /\ ~mgr.session_active
    /\ mgr.session_branch = Str0

\* C37: with no branch change from outside the manager, every commit that
\* start, commit, end or return creates is created while the repository is
\* on a session branch: the manager never commits onto another branch.
C37_CommitsOnlyOnSessionBranches ==
    \A i \in 2..Len(repo.commits) : IsSessionBranch(repo.commits[i].on)

\* C38: no operation of the manager deletes, renames or force-moves a branch
\* or a tag: every branch and every tag that exists before a step exists
\* after it, a tag keeps its commit, and a branch moves only to a new
\* commit made on it while it was checked out; a session branch is
\* still there after end_experimental_session and return_to_parent_branch.
C38_BranchesAndTagsOnlyGrow ==
    [][/\ DOMAIN repo.heads \subseteq DOMAIN repo'.heads
       /\ DOMAIN repo.tags \subseteq DOMAIN repo'.tags
       /\ \A t \in DOMAIN repo.tags : repo'.tags[t] = repo.tags[t]
       /\ \A b \in DOMAIN repo.heads :
             \/ repo'.heads[b] = repo.heads[b]
             \/ /\ b = repo.branch
                /\ repo'.heads[b] > Len(repo.commits)
                /\ repo'.commits[repo'.heads[b]].on = b]_vars

\* a session was ended and returned from; its branch, with the final commit
\* on it, and its tag are still there
C38_SessionBranchKeptAfterReturn ==
    /\ last.op = "return" /\ ~last.raised
    /\ IsSessionBranch(last.from) /\ repo.branch = Main
    /\ last.from \in DOMAIN repo.heads
    /\ repo.commits[repo.heads[last.from]].kind = "Final"
    /\ TagName(StartTag, last.from) \in DOMAIN repo.tags

\* the commands of the submodule operations
SubmoduleSitesOf(sites) == {x \in sites : IsSubmoduleSite(x)}

\* the steps of the superproject that follow the submodule operation of a
\* commit and of a return
CommitStages == {"committed", "nothing to commit", "commit"}

ReturnStages == {"returned", "checkout"}

\* C39: the three submodule operations never raise to their caller, whatever
\* combination of their commands fails (a submodule command, the listing of
\* .gitmodules, the persisted record): the start that encloses them goes on
\* to its initial commit, the commit to git add and git commit, the return
\* to the checkout of the parent.
C39_SubmoduleOperationsNeverRaise ==
    mgr.manage_submodules =>
        /\ \A ft \in SUBSET SubmoduleSitesOf(StartSites), ts \in Timestamps :
              start_experimental_session(World, ts, ft, 0).stage
                  \in InitialCommitStages
        /\ \A ft \in SUBSET SubmoduleSitesOf(CommitSites) :
              (mgr.session_active /\ mgr.has_uncommitted_changes)
                  => commit_session_changes(World, FALSE, ft).stage \in CommitStages
        /\ \A ft \in SUBSET SubmoduleSitesOf(ReturnSites \ EndSites) :
              (mgr.parent_branch # Str0 /\ ~end_experimental_session(World, ft).raised)
                  => return_to_parent_branch(World, ft).stage \in ReturnStages
        /\ (/\ last.op = "commit" /\ last.ft # {}
            /\ last.ft \subseteq SubmoduleSitesOf(CommitSites))
              => last.stage \in CommitStages

\* a commit in which the commit of a changed submodule failed has gone on to
\* commit the changes of the superproject
C39_WentOnAfterSubmoduleFailure ==
    /\ mgr.manage_submodules /\ ~last.raised
    /\ last.op = "commit" /\ last.stage = "committed"
    /\ \E p \in Submodules :
          <<"commit", "sub commit", p>> \in last.ft /\ sub.mods[p].dirty
    /\ NewestCommit(repo).kind = "Progress"

\* C40: the loop that probes for a free branch name terminates: it reaches a
\* name no branch has after at most as many existence checks as there are
\* branches, plus one, and start goes on to the creation of the branch.
C40_ProbeEndsWithinBranchCount ==
    [][last'.op = "start"
          => /\ ProbeChecks(repo, last'.base, last'.ft)
                    <= Cardinality(Branches(repo)) + 1
             /\ <<"start", "show-ref">> \notin last'.ft
                   => last'.name \notin Branches(repo)
             /\ \/ last'.stage = "checkout"
                \/ last'.name \in Branches(repo') /\ repo'.branch = last'.name]_vars

\* the probe has passed over three names in use, with five branches in the
\* repository now, and the branch of the fourth name has been created
C40_FourthCandidateTaken ==
    /\ last.op = "start" /\ ~last.raised
    /\ last.name = Suffixed(last.base, 3)
    /\ Cardinality(Branches(repo)) = 5
    /\ {last.base, Suffixed(last.base, 1), Suffixed(last.base, 2)}
           \subseteq Branches(repo)
    /\ repo.branch = last.name
====
